---- MODULE Spec2Model ----
(***************************************************************************)
(* A model of the Trello MCP adapter: the dual-bucket rate limiter, the    *)
(* request wrapper of TrelloClient, and the board watch (snapshot builder, *)
(* change detector, watch loop).                                           *)
(*                                                                         *)
(* Time is counted in ticks.  Identifiers (list, card, label, activity     *)
(* ids) are small naturals whose numeric order stands for the string order *)
(* of the fixed-width hexadecimal ids of the upstream service; 0 stands    *)
(* for an absent (undefined) value.                                        *)
(***************************************************************************)
EXTENDS Integers, Sequences, FiniteSets, TLC

(***************************************************************************)
(* Bounds of the model.                                                    *)
(***************************************************************************)
\* Bucket capacities, scaled down 100:1 from 300 and 100 requests per window.
KeyCapacity == 3
TokenCapacity == 1
\* Length of the refill window in ticks (10 seconds in the program).
Window == 3
\* Number of concurrent callers of the limiter.
NumCallers == 4
\* Longest file path handed to deleteLocalAttachment, in segments.
MaxPathLen == 3
\* Delay before a re-attempt after a quota rejection, in ticks (1 second).
RetryDelay == 1
\* Quota rejections the upstream service answers to one operation.
MaxRejections == 2
\* Size of the board.
NumLists == 2
NumCards == 2
\* Changes made to the board during one run.
MaxEvents == 2
\* Arguments of waitForChanges, in ticks.
MaxPollInterval == 1
MaxTimeout == 1
\* Arguments of waitForChanges on a board that nobody changes, in ticks.
MaxQuietPollInterval == 2
MaxQuietTimeout == 5
\* The poll-cycle counter saturates here.
MaxCycles == 3

VARIABLES
    \* ---- rate limiter -------------------------------------------------
    tokens,       \* bucket -> available count
    sinceRefill,  \* bucket -> ticks since the last refill, saturating at Window
    granted,      \* bucket -> calls granted since the last refill
    lpc,          \* caller -> "idle" | "calling" | "suspended" | "done"
    wakeIn,       \* caller -> ticks left until the boundary it is suspended for
    doneAge,      \* caller -> ticks since its call completed, saturating at Window
    waited,       \* caller -> its call was suspended at least once
    \* ---- client request wrapper ------------------------------------------
    cpc,          \* position of the client operation in flight
    cop,          \* the operation in flight
    rejections,   \* quota rejections (HTTP 429) received by the operation
    backoffLeft,  \* ticks left of the delay before a re-attempt
    sentLog,      \* requests the operation has sent, oldest first
    outcome,      \* how the operation ended
    attachmentDir, \* TRUE when config.attachmentDir is set
    failure,      \* the error the latest failed attempt raised: "none" | "axios" | "other"
    \* ---- local files and the call-tool handler ------------------------------
    files,        \* the regular files that exist, as resolved paths
    deleteResult, \* the argument and the return value of the latest deleteLocalAttachment
    tpc,          \* position of the call-tool handler
    tool,         \* request.params.name
    toolArgs,     \* request.params.arguments: whether present, and the arguments it holds
    response,     \* the response of the handler, Undefined before it returns
    \* ---- the board, as the upstream service holds it ---------------------
    wCards,       \* card id -> [idList, idLabels, desc]; idList 0: not on the board
    wFeed,        \* the activity feed, newest entry first
    events,       \* number of changes made to the board so far
    \* ---- waitForChanges --------------------------------------------------
    wpc,          \* position of the invocation
    phase,        \* "initial" or "poll": which createBoardSnapshot call is running
    listIds,      \* argument: Undefined or a sequence of list ids
    pollInterval, \* argument, in ticks
    timeout,      \* argument, in ticks
    elapsed,      \* Date.now() - startTime, saturating at timeout
    sleepLeft,    \* ticks left of the poll-interval sleep
    building,     \* the card map createBoardSnapshot is filling
    nextList,     \* index of the next board list createBoardSnapshot visits
    snapshot,     \* local variable snapshot
    newSnapshot,  \* local variable newSnapshot of the loop body
    boardSnapshots, \* this.boardSnapshots.get(boardId), Undefined when unset
    storedIsSnapshot, \* the stored entry and snapshot are the same object
    cycles,       \* poll cycles completed, saturating at MaxCycles
    lastRun,      \* inputs and output of the detectChanges call of the latest cycle
    initialActionId, \* id of the newest feed entry when the initial snapshot was captured
    failed,       \* an upstream call of the invocation has failed
    result,       \* the value returned, Undefined before the return
    requests      \* upstream requests issued since the cycle began, with their answers

limiterVars == <<tokens, sinceRefill, granted, lpc, wakeIn, doneAge, waited>>
serverVars == <<files, deleteResult, tpc, tool, toolArgs, response>>
clientVars == <<cpc, cop, rejections, backoffLeft, sentLog, outcome, attachmentDir,
               failure, serverVars>>
worldVars == <<wCards, wFeed, events>>
watchVars == <<wpc, phase, listIds, pollInterval, timeout, elapsed, sleepLeft,
               building, nextList, snapshot, newSnapshot, boardSnapshots,
               storedIsSnapshot, cycles, lastRun, initialActionId, failed, result,
               requests>>
vars == <<limiterVars, clientVars, worldVars, watchVars>>

Min(a, b) == IF a < b THEN a ELSE b
Max(a, b) == IF a > b THEN a ELSE b

(***************************************************************************)
(* Rate limiter (rate-limiter.js is imported by the client, its text is    *)
(* not part of the sources: modelled from the design document, section     *)
(* 4.1).                                                                   *)
(***************************************************************************)
Buckets == {"apiKey", "token"}
Callers == 1..NumCallers

Capacity(b) == IF b = "apiKey" THEN KeyCapacity ELSE TokenCapacity

\* Each bucket starts full, refilled at construction time.
createTrelloRateLimiters ==
    /\ tokens = [b \in Buckets |-> Capacity(b)]
    /\ sinceRefill = [b \in Buckets |-> 0]
    /\ granted = [b \in Buckets |-> 0]

\* (mutant) the reclaim step resets a bucket after a single tick.
WindowElapsedEarly(b) == sinceRefill[b] >= 1

\* The window of bucket b has elapsed since its last refill.
WindowElapsed(b) == sinceRefill[b] >= Window

\* (mutant) the reclaim step never returns capacity.
RefilledNever(b) == tokens[b]

\* Available count of bucket b after reclaiming elapsed-window capacity:
\* a fixed-window reset to capacity, no smooth leak.
Refilled(b) == IF WindowElapsed(b) THEN Capacity(b) ELSE tokens[b]

\* Ticks since the last refill of b, after the reclaim step.
RefilledAge(b) == IF WindowElapsed(b) THEN 0 ELSE sinceRefill[b]

\* Calls granted in the current window of b, after the reclaim step.
RefilledGrants(b) == IF WindowElapsed(b) THEN 0 ELSE granted[b]

\* RateLimiter.canMakeRequest(): the bucket holds a token after the reclaim step.
canMakeRequest(b) == Refilled(b) >= 1

\* (mutant) only the credential-key bucket is consulted.
CanProceedKeyOnly == canMakeRequest("apiKey")

\* A call may proceed only when both buckets have availability.
CanProceed == \A b \in Buckets : canMakeRequest(b)

\* Ticks until the next window boundary of an exhausted bucket.
NextBoundary ==
    LET ex == {b \in Buckets : ~canMakeRequest(b)}
        b0 == CHOOSE b \in ex : \A o \in ex : RefilledAge(b) >= RefilledAge(o)
    IN  Window - RefilledAge(b0)

\* A caller starts waitForAvailable().
Call(c) ==
    /\ lpc[c] = "idle"
    /\ lpc' = [lpc EXCEPT ![c] = "calling"]
    /\ UNCHANGED <<tokens, sinceRefill, granted, wakeIn, doneAge, waited>>
    /\ UNCHANGED <<clientVars, worldVars, watchVars>>

\* One check of waitForAvailable(): reclaim, then consume one token of each
\* bucket and return, or suspend until the next window boundary.
TryAcquire(c) ==
    /\ lpc[c] = "calling"
    /\ sinceRefill' = [b \in Buckets |-> RefilledAge(b)]
    /\ IF CanProceed
         THEN /\ tokens' = [b \in Buckets |-> Refilled(b) - 1]
              /\ granted' = [b \in Buckets |-> RefilledGrants(b) + 1]
              /\ lpc' = [lpc EXCEPT ![c] = "done"]
              /\ doneAge' = [doneAge EXCEPT ![c] = 0]
              /\ UNCHANGED <<wakeIn, waited>>
         ELSE /\ tokens' = [b \in Buckets |-> Refilled(b)]
              /\ granted' = [b \in Buckets |-> RefilledGrants(b)]
              /\ lpc' = [lpc EXCEPT ![c] = "suspended"]
              /\ wakeIn' = [wakeIn EXCEPT ![c] = NextBoundary]
              /\ waited' = [waited EXCEPT ![c] = TRUE]
              /\ UNCHANGED doneAge
    /\ UNCHANGED <<clientVars, worldVars, watchVars>>

\* The timer of a suspended caller has fired: it retries the check.
Resume(c) ==
    /\ lpc[c] = "suspended"
    /\ wakeIn[c] = 0
    /\ lpc' = [lpc EXCEPT ![c] = "calling"]
    /\ UNCHANGED <<tokens, sinceRefill, granted, wakeIn, doneAge, waited>>
    /\ UNCHANGED <<clientVars, worldVars, watchVars>>

\* One tick of the clock, as the limiter sees it.
LimiterTick ==
    /\ sinceRefill' = [b \in Buckets |-> Min(sinceRefill[b] + 1, Window)]
    /\ wakeIn' = [c \in Callers |-> Max(wakeIn[c] - 1, 0)]
    /\ doneAge' = [c \in Callers |->
                     IF lpc[c] = "done" THEN Min(doneAge[c] + 1, Window)
                     ELSE doneAge[c]]
    /\ UNCHANGED <<tokens, granted, lpc, waited>>

(***************************************************************************)
(* TrelloClient: the request interceptor and handleRequest.                *)
(***************************************************************************)
\* The limiter caller on whose behalf the client's interceptor waits.
ClientCaller == 1

Operations ==
    {"getCardsByList", "getLists", "getRecentActivity", "addCard", "updateCard",
     "archiveCard", "addList", "archiveList", "getMyCards", "searchAllBoards",
     "getCardAttachments", "downloadAttachment", "moveCard", "addComment",
     "getLabels", "addLabel"}

\* The request an operation issues through this.axiosInstance.
InstanceRequest(op) == IF op = "downloadAttachment" THEN "attachmentMetadata" ELSE op

\* (mutant) the interceptor lets a request through while the limiter call is
\* still pending.
InterceptorPassedEarly == lpc[ClientCaller] \in {"calling", "suspended", "done"}

\* The interceptor of axiosInstance has awaited rateLimiter.waitForAvailable().
InterceptorPassed == lpc[ClientCaller] = "done"

\* handleRequest(request): request() is called; a request made through
\* axiosInstance first enters the interceptor.
handleRequest ==
    /\ cpc' = "intercept"
    /\ lpc' = [lpc EXCEPT ![ClientCaller] = "calling"]
    /\ UNCHANGED <<tokens, sinceRefill, granted, wakeIn, doneAge, waited>>

\* A client operation is called.
StartOp(op) ==
    /\ cpc = "idle"
    /\ handleRequest
    /\ cop' = op
    /\ rejections' = 0
    /\ sentLog' = <<>>
    /\ outcome' = "none"
    /\ failure' = "none"
    /\ UNCHANGED <<backoffLeft, attachmentDir, serverVars, worldVars, watchVars>>

\* The interceptor returns the request config and the request goes upstream.
SendRequest ==
    /\ cpc = "intercept"
    /\ InterceptorPassed
    /\ cpc' = "inflight"
    /\ sentLog' = Append(sentLog, [req |-> InstanceRequest(cop),
                                    gated |-> lpc[ClientCaller] = "done"])
    /\ lpc' = [lpc EXCEPT ![ClientCaller] = "idle"]
    /\ UNCHANGED <<tokens, sinceRefill, granted, wakeIn, doneAge, waited>>
    /\ UNCHANGED <<cop, rejections, backoffLeft, outcome, attachmentDir, serverVars, failure>>
    /\ UNCHANGED <<worldVars, watchVars>>

\* The upstream service answers 2xx.  downloadAttachment goes on with the
\* attachment's metadata, every other operation returns response.data.
RespondOk(isUpload) ==
    /\ cpc = "inflight"
    /\ IF cop # "downloadAttachment"
         THEN cpc' = "returned" /\ outcome' = "data"
         ELSE IF ~isUpload
         THEN cpc' = "returned" /\ outcome' = "linkOnly"
         ELSE IF ~attachmentDir
         THEN cpc' = "returned" /\ outcome' = "dirNotSet"
         ELSE cpc' = "content" /\ outcome' = outcome
    /\ UNCHANGED <<cop, rejections, backoffLeft, sentLog, attachmentDir, serverVars, failure>>
    /\ UNCHANGED <<limiterVars, worldVars, watchVars>>

\* (mutant) a second quota rejection of one operation is thrown to the caller.
RespondQuotaOnce ==
    /\ cpc = "inflight"
    /\ rejections < MaxRejections
    /\ rejections' = rejections + 1
    /\ IF rejections = 0
         THEN /\ cpc' = "backoff"
              /\ backoffLeft' = RetryDelay
              /\ UNCHANGED <<outcome, failure>>
         ELSE /\ cpc' = "thrown"
              /\ outcome' = "apiError"
              /\ failure' = "axios"
              /\ UNCHANGED backoffLeft
    /\ UNCHANGED <<cop, sentLog, attachmentDir, serverVars>>
    /\ UNCHANGED <<limiterVars, worldVars, watchVars>>

\* The upstream service answers 429: wait RetryDelay, then handleRequest again.
RespondQuota ==
    /\ cpc = "inflight"
    /\ rejections < MaxRejections
    /\ cpc' = "backoff"
    /\ rejections' = rejections + 1
    /\ backoffLeft' = RetryDelay
    /\ UNCHANGED <<cop, sentLog, outcome, attachmentDir, serverVars, failure>>
    /\ UNCHANGED <<limiterVars, worldVars, watchVars>>

\* The delay is over: return this.handleRequest(request).
Retry ==
    /\ cpc = "backoff"
    /\ backoffLeft = 0
    /\ handleRequest
    /\ UNCHANGED <<cop, rejections, backoffLeft, sentLog, outcome, attachmentDir, failure,
                   serverVars>>
    /\ UNCHANGED <<worldVars, watchVars>>

\* (mutant) every axios error is retried like a quota rejection.
RespondErrorRetries(isAxiosError) ==
    /\ cpc = "inflight"
    /\ failure' = IF isAxiosError THEN "axios" ELSE "other"
    /\ IF isAxiosError
         THEN /\ cpc' = "backoff"
              /\ backoffLeft' = RetryDelay
              /\ UNCHANGED outcome
         ELSE /\ cpc' = "thrown"
              /\ outcome' = "otherError"
              /\ UNCHANGED backoffLeft
    /\ UNCHANGED <<cop, rejections, sentLog, attachmentDir, serverVars>>
    /\ UNCHANGED <<limiterVars, worldVars, watchVars>>

\* Any other failure: an axios error becomes 'Trello API error: ...', any
\* other error is rethrown as it is.
RespondError(isAxiosError) ==
    /\ cpc = "inflight"
    /\ cpc' = "thrown"
    /\ failure' = IF isAxiosError THEN "axios" ELSE "other"
    /\ outcome' = IF isAxiosError THEN "apiError" ELSE "otherError"
    /\ UNCHANGED <<cop, rejections, backoffLeft, sentLog, attachmentDir, serverVars>>
    /\ UNCHANGED <<limiterVars, worldVars, watchVars>>

\* downloadAttachment fetches the content with axios.get(attachment.url):
\* the module-level axios, which has no interceptor.
SendContentRequest ==
    /\ cpc = "content"
    /\ cpc' = "contentInflight"
    /\ sentLog' = Append(sentLog, [req |-> "attachmentContent",
                                    gated |-> lpc[ClientCaller] = "done"])
    /\ UNCHANGED <<cop, rejections, backoffLeft, outcome, attachmentDir, serverVars, failure>>
    /\ UNCHANGED <<limiterVars, worldVars, watchVars>>

\* The content request ends; a failure is caught inside downloadAttachment.
RespondContent(ok) ==
    /\ cpc = "contentInflight"
    /\ cpc' = "returned"
    /\ outcome' = IF ok THEN "saved" ELSE "downloadFailed"
    /\ UNCHANGED <<cop, rejections, backoffLeft, sentLog, attachmentDir, serverVars, failure>>
    /\ UNCHANGED <<limiterVars, worldVars, watchVars>>

ClientTick == backoffLeft' = Max(backoffLeft - 1, 0)

\* One tick of the clock.
Tick ==
    /\ LimiterTick
    /\ ClientTick
    /\ UNCHANGED <<cpc, cop, rejections, sentLog, outcome, attachmentDir, serverVars, failure>>
    /\ UNCHANGED <<worldVars, watchVars>>

(***************************************************************************)
(* The board held by the upstream service.                                 *)
(***************************************************************************)
\* An optional value is a sequence of at most one element.
Undefined == <<>>
Some(x) == <<x>>
\* An absent id.
NoId == 0

Lists == 1..NumLists
CardIds == 1..NumCards

\* The label arrays a card can carry, in the order the service returns them.
LabelSeqs == {<<>>, <<1>>, <<1, 2>>, <<2, 1>>}
Descs == {"d1", "d2"}

\* Comment texts, as sequences of words; "robot" stands for the emoji.
Marker == <<"robot", "by", "Claude", "Code">>
CommentTexts == { <<"done">>,
                  <<"robot", "by", "Claude", "Code", "done">>,
                  <<"by", "Claude", "Code">> }

\* GET /boards/{id}/lists: the board's lists, in board order.
getLists == [i \in 1..NumLists |-> i]

\* GET /lists/{id}/cards: the open cards of a list, in the list's order.
RECURSIVE CardsFrom(_, _)
CardsFrom(l, c) ==
    IF c > NumCards THEN <<>>
    ELSE (IF wCards[c].idList = l
          THEN <<[id |-> c, name |-> c, desc |-> wCards[c].desc,
                  idList |-> l, idLabels |-> wCards[c].idLabels]>>
          ELSE <<>>) \o CardsFrom(l, c + 1)

getCardsByList(l) == CardsFrom(l, 1)

\* GET /boards/{id}/actions?limit=n: the newest n entries, newest first.
getRecentActivity(limit) == SubSeq(wFeed, 1, Min(limit, Len(wFeed)))

NextActionId == IF Len(wFeed) = 0 THEN 1 ELSE wFeed[1].id + 1

Logged(type, c, text) ==
    <<[id |-> NextActionId, type |-> type, card |-> c, text |-> text]>> \o wFeed

\* Somebody moves a card to another list.
MoveCard(c, l) ==
    /\ events < MaxEvents
    /\ wCards[c].idList \notin {NoId, l}
    /\ wCards' = [wCards EXCEPT ![c].idList = l]
    /\ wFeed' = Logged("updateCard", c, <<>>)
    /\ events' = events + 1

\* Somebody changes the labels of a card (or only their order).
SetLabels(c, ls) ==
    /\ events < MaxEvents
    /\ wCards[c].idList # NoId
    /\ wCards[c].idLabels # ls
    /\ wCards' = [wCards EXCEPT ![c].idLabels = ls]
    /\ wFeed' = Logged("updateCard", c, <<>>)
    /\ events' = events + 1

\* Somebody edits the description of a card.
SetDesc(c, d) ==
    /\ events < MaxEvents
    /\ wCards[c].idList # NoId
    /\ wCards[c].desc # d
    /\ wCards' = [wCards EXCEPT ![c].desc = d]
    /\ wFeed' = Logged("updateCard", c, <<>>)
    /\ events' = events + 1

\* Somebody creates a card.
CreateCard(c, l) ==
    /\ events < MaxEvents
    /\ wCards[c].idList = NoId
    /\ wCards' = [wCards EXCEPT ![c] = [idList |-> l, idLabels |-> <<>>, desc |-> "d1"]]
    /\ wFeed' = Logged("createCard", c, <<>>)
    /\ events' = events + 1

\* Somebody archives a card.
ArchiveCard(c) ==
    /\ events < MaxEvents
    /\ wCards[c].idList # NoId
    /\ wCards' = [wCards EXCEPT ![c].idList = NoId]
    /\ wFeed' = Logged("updateCard", c, <<>>)
    /\ events' = events + 1

\* Somebody comments on a card.
CommentCard(c, text) ==
    /\ events < MaxEvents
    /\ wCards[c].idList # NoId
    /\ wFeed' = Logged("commentCard", c, text)
    /\ events' = events + 1
    /\ UNCHANGED wCards

\* The board changes while an invocation of waitForChanges runs (what happens
\* to the board before or after it is part of the initial board, or unseen).
BoardChange ==
    /\ wpc \notin {"idle", "returned", "thrown"}
    /\ \/ \E c \in CardIds, l \in Lists : MoveCard(c, l)
       \/ \E c \in CardIds, ls \in LabelSeqs : SetLabels(c, ls)
       \/ \E c \in CardIds, d \in Descs : SetDesc(c, d)
       \/ \E c \in CardIds, l \in Lists : CreateCard(c, l)
       \/ \E c \in CardIds : ArchiveCard(c)
       \/ \E c \in CardIds, text \in CommentTexts : CommentCard(c, text)
    /\ UNCHANGED <<limiterVars, clientVars, watchVars>>

(***************************************************************************)
(* Snapshot builder and change detector.                                   *)
(***************************************************************************)
\* A JavaScript Map, as the sequence of its entries in insertion order.
MapHas(m, k) == \E i \in 1..Len(m) : m[i].id = k
MapGet(m, k) == m[CHOOSE i \in 1..Len(m) : m[i].id = k]
MapSet(m, v) ==
    IF MapHas(m, v.id)
    THEN [i \in 1..Len(m) |-> IF m[i].id = v.id THEN v ELSE m[i]]
    ELSE Append(m, v)

RECURSIVE MapSetAll(_, _)
MapSetAll(m, vs) ==
    IF vs = <<>> THEN m ELSE MapSetAll(MapSet(m, Head(vs)), Tail(vs))

\* Array.prototype.includes on the list-id argument.
SeqIncludes(q, x) == \E i \in 1..Len(q) : q[i] = x

\* (mutant) the restriction is ignored: every list of the board is targeted.
TargetListIdsAll(ids, lists) == lists

\* const targetListIds = listIds || lists.map(l => l.id)
TargetListIds(ids, lists) == IF ids = Undefined THEN lists ELSE ids[1]

\* (mutant) the label ids of the card are not recorded.
CardSnapshotNoLabels(card) ==
    [id |-> card.id, name |-> card.name, desc |-> card.desc,
     idList |-> card.idList, idLabels |-> <<>>]

\* One card of a list response, as createBoardSnapshot records it.
CardSnapshot(card) ==
    [id |-> card.id, name |-> card.name, desc |-> card.desc,
     idList |-> card.idList, idLabels |-> card.idLabels]

\* (mutant) the label arrays are compared in the order they arrive in.
SortLabelsNot(ls) == ls

\* (mutant) the label arrays are reversed in place.
ReverseLabels(ls) == [i \in 1..Len(ls) |-> ls[Len(ls) + 1 - i]]

\* Array.prototype.sort() on label ids.
SortLabels(ls) == SortSeq(ls, LAMBDA a, b : a < b)

\* Array.prototype.join(','): the ids with a comma between them.
Comma == 0
RECURSIVE Join(_)
Join(ls) ==
    IF ls = <<>> THEN <<>>
    ELSE IF Len(ls) = 1 THEN <<ls[1]>>
    ELSE <<ls[1], Comma>> \o Join(Tail(ls))

\* (mutant) String.prototype.endsWith
EndsWith(text, part) ==
    Len(text) >= Len(part) /\ SubSeq(text, Len(text) - Len(part) + 1, Len(text)) = part

\* String.prototype.includes
Includes(text, part) ==
    \E i \in 0..(Len(text) - Len(part)) : SubSeq(text, i + 1, i + Len(part)) = part

\* listNameMap.get(id) || ''
ListName(l) == IF l \in Lists THEN l ELSE NoId

\* (mutant) the scan never stops at the last-seen activity id.
ScannedAll(actions, oldActionId) == actions

\* The entries the comment loop visits before its break.
Scanned(actions, oldActionId) ==
    LET stops == {i \in 1..Len(actions) :
                     oldActionId # NoId /\ actions[i].id <= oldActionId}
        first == IF stops = {} THEN Len(actions) + 1
                 ELSE CHOOSE i \in stops : \A j \in stops : i <= j
    IN  SubSeq(actions, 1, first - 1)

\* The label arrays after the per-card loop: the arrays of a card present
\* in both snapshots are sorted in place.
SortedIn(snap, other) ==
    [snap EXCEPT !.cards =
        [i \in 1..Len(snap.cards) |->
            IF MapHas(other.cards, snap.cards[i].id)
            THEN [snap.cards[i] EXCEPT !.idLabels = SortLabels(snap.cards[i].idLabels)]
            ELSE snap.cards[i]]]

Change(type, card, oldListId, oldLabels, comment, isClaudeComment) ==
    [type |-> type, cardId |-> card.id, cardName |-> card.name,
     cardDescription |-> card.desc, listId |-> card.idList,
     listName |-> ListName(card.idList), labels |-> card.idLabels,
     oldListId |-> oldListId, oldLabels |-> oldLabels,
     comment |-> comment, isClaudeComment |-> isClaudeComment]

\* (mutant) the commented card is looked up in the previous snapshot.
LookupCardsOld(oldSnap, newSnap) == oldSnap.cards

\* const card = newSnapshot.cards.get(cardId): the map a commented card is
\* looked up in.
LookupCards(oldSnap, newSnap) == newSnap.cards

\* The records of the comment loop.  A record refers to the card's label
\* array, so it shows the array as the per-card loop leaves it.
RECURSIVE CommentChanges(_, _)
CommentChanges(scanned, cardsAfter) ==
    IF scanned = <<>> THEN <<>>
    ELSE LET action == Head(scanned)
             here == IF /\ action.type = "commentCard"
                        /\ action.card # NoId
                        /\ MapHas(cardsAfter, action.card)
                     THEN <<Change("commented", MapGet(cardsAfter, action.card), NoId, <<>>,
                                   action.text, Includes(action.text, Marker))>>
                     ELSE <<>>
         IN  here \o CommentChanges(Tail(scanned), cardsAfter)

\* (mutant) a move is not looked for.
MovedNever(oldCard, newCard) == FALSE

\* if (oldCard.idList !== newCard.idList)
Moved(oldCard, newCard) == oldCard.idList # newCard.idList

\* (mutant) every card of the new snapshot counts as added.
AddedAlways(oldSnap, cardId) == TRUE

\* const oldCard = oldSnapshot.cards.get(cardId); if (!oldCard)
Added(oldSnap, cardId) == ~MapHas(oldSnap.cards, cardId)

\* The records of the per-card loop for one card of the new snapshot.
CardChanges(oldBefore, oldAfter, newBefore, newAfter, cardId) ==
    LET newCard == MapGet(newAfter.cards, cardId)
    IN  IF Added(oldBefore, cardId)
        THEN <<Change("added", newCard, NoId, <<>>, <<>>, FALSE)>>
        ELSE LET oldCard == MapGet(oldAfter.cards, cardId)
                 oldLabels == Join(SortLabels(MapGet(oldBefore.cards, cardId).idLabels))
                 newLabels == Join(SortLabels(MapGet(newBefore.cards, cardId).idLabels))
             IN  (IF Moved(oldCard, newCard)
                  THEN <<Change("moved", newCard, oldCard.idList, <<>>, <<>>, FALSE)>>
                  ELSE <<>>)
                 \o
                 (IF oldLabels # newLabels
                  THEN <<Change("label_changed", newCard, NoId, oldCard.idLabels, <<>>, FALSE)>>
                  ELSE <<>>)
                 \o
                 (IF oldCard.desc # newCard.desc
                  THEN <<Change("description_changed", newCard, NoId, <<>>, <<>>, FALSE)>>
                  ELSE <<>>)

\* (mutant) the card map is walked from its last entry to its first.
RECURSIVE AllCardChangesReversed(_, _, _, _, _)
AllCardChangesReversed(oldBefore, oldAfter, newBefore, newAfter, i) ==
    IF i > Len(newBefore.cards) THEN <<>>
    ELSE AllCardChangesReversed(oldBefore, oldAfter, newBefore, newAfter, i + 1)
         \o CardChanges(oldBefore, oldAfter, newBefore, newAfter, newBefore.cards[i].id)

\* for (const [cardId, newCard] of newSnapshot.cards)
RECURSIVE AllCardChanges(_, _, _, _, _)
AllCardChanges(oldBefore, oldAfter, newBefore, newAfter, i) ==
    IF i > Len(newBefore.cards) THEN <<>>
    ELSE CardChanges(oldBefore, oldAfter, newBefore, newAfter, newBefore.cards[i].id)
         \o AllCardChanges(oldBefore, oldAfter, newBefore, newAfter, i + 1)

\* detectChanges, given the activity entries its request returned: the
\* changes, and the two snapshot objects as the call leaves them.
detectChanges(oldSnapshot, newSnap, actions) ==
    LET oldAfter == SortedIn(oldSnapshot, newSnap)
        newSorted == SortedIn(newSnap, oldSnapshot)
        newAfter == IF Len(actions) > 0
                    THEN [newSorted EXCEPT !.lastActionId = actions[1].id]
                    ELSE newSorted
    IN  [changes |-> CommentChanges(Scanned(actions, oldSnapshot.lastActionId),
                                    LookupCards(oldAfter, newAfter))
                     \o AllCardChanges(oldSnapshot, oldAfter, newSnap, newAfter, 1),
         oldSnapshot |-> oldAfter,
         newSnapshot |-> newAfter]

(***************************************************************************)
(* waitForChanges.                                                         *)
(***************************************************************************)
\* Limit of the activity request in detectChanges.
ActivityLimit == 50

\* (mutant) the loop is left although nothing was detected.
DetectedAlways(changes) == TRUE

\* (mutant) a single change is not enough to return.
DetectedSeveral(changes) == Len(changes) > 1

\* if (changes.length > 0)
Detected(changes) == Len(changes) > 0

\* (mutant) while (true)
LoopForever == TRUE

\* (mutant) while (Date.now() - startTime <= timeout)
LoopContinuesInclusive == elapsed <= timeout

\* while (Date.now() - startTime < timeout)
LoopContinues == elapsed < timeout

\* (mutant) createBoardSnapshot fetches the cards of every board list.
NextTargetEvery(ids, i) == i + 1

\* First index after i of a board list createBoardSnapshot fetches cards of.
NextTarget(ids, i) ==
    LET lists == getLists
        later == {j \in (i + 1)..Len(lists) :
                     SeqIncludes(TargetListIds(ids, lists), lists[j])}
    IN  IF later = {} THEN Len(lists) + 1
        ELSE CHOOSE j \in later : \A k \in later : j <= k

EmptySnapshot == [cards |-> <<>>, lists |-> <<>>, lastActionId |-> NoId]

\* An upstream request of the invocation, in flight until it is answered.
Request(kind, list, limit) ==
    [kind |-> kind, list |-> list, limit |-> limit, done |-> FALSE, response |-> <<>>]

\* The requests of the log that are in flight.
Pending(log) == SelectSeq(log, LAMBDA r : ~r.done)

\* The request issued last is answered.
Answered(log, data) ==
    [log EXCEPT ![Len(log)] = [@ EXCEPT !.done = TRUE, !.response = data]]

\* (mutant) the loop does not await the detector: the timer of the next
\* cycle can fire while the activity request is in flight.
TimerFiredUnawaited == wpc \in {"sleep", "activity"} /\ sleepLeft = 0

\* await new Promise(resolve => setTimeout(resolve, pollInterval)) resolves.
TimerFired == wpc = "sleep" /\ sleepLeft = 0

\* waitForChanges is called: startTime is taken and createBoardSnapshot
\* issues its lists request.
Start(ids, interval, limit) ==
    /\ wpc = "idle"
    /\ wpc' = "snapLists"
    /\ phase' = "initial"
    /\ listIds' = ids
    /\ pollInterval' = interval
    /\ timeout' = limit
    /\ elapsed' = 0
    /\ requests' = <<Request("lists", NoId, 0)>>
    /\ UNCHANGED <<sleepLeft, building, nextList, snapshot, newSnapshot,
                   boardSnapshots, storedIsSnapshot, cycles, lastRun, initialActionId,
                   result>>
    /\ UNCHANGED failed
    /\ UNCHANGED <<limiterVars, clientVars, worldVars>>

\* The top of the loop, reached with the snapshot in snap: sleep, or return
\* the timeout result.
LoopTop ==
    IF LoopContinues
    THEN /\ wpc' = "sleep"
         /\ sleepLeft' = pollInterval
         /\ result' = result
    ELSE /\ wpc' = "returned"
         /\ sleepLeft' = sleepLeft
         /\ result' = Some([changes |-> <<>>, timedOut |-> TRUE])

\* createBoardSnapshot has visited every list and returns; its locals are
\* gone and the caller goes on.
SnapshotBuilt(built) ==
    /\ building' = EmptySnapshot
    /\ nextList' = 1
    /\ IF phase = "initial"
       THEN /\ snapshot' = built
            /\ boardSnapshots' = Some(built)
            /\ storedIsSnapshot' = TRUE
            /\ wpc' = "names"
            /\ initialActionId' = IF Len(wFeed) = 0 THEN NoId ELSE wFeed[1].id
            /\ UNCHANGED newSnapshot
       ELSE /\ newSnapshot' = built
            /\ wpc' = "activity"
            /\ UNCHANGED <<snapshot, boardSnapshots, storedIsSnapshot, initialActionId>>

\* The request the caller of createBoardSnapshot issues next: the lists
\* request for the name map, or the activity request of detectChanges.
AfterSnapshot ==
    IF phase = "initial" THEN Request("lists", NoId, 0)
    ELSE Request("activity", NoId, ActivityLimit)

\* createBoardSnapshot: the lists request returns.
SnapLists ==
    /\ wpc = "snapLists"
    /\ LET first == NextTarget(listIds, 0)
           built == [EmptySnapshot EXCEPT !.lists = getLists]
           log == Answered(requests, getLists)
       IN  IF first <= Len(getLists)
           THEN /\ building' = built
                /\ nextList' = first
                /\ wpc' = "snapCards"
                /\ requests' = Append(log, Request("cards", getLists[first], 0))
                /\ UNCHANGED <<snapshot, newSnapshot, boardSnapshots, storedIsSnapshot,
                               initialActionId>>
           ELSE SnapshotBuilt(built) /\ requests' = Append(log, AfterSnapshot)
    /\ UNCHANGED <<phase, listIds, pollInterval, timeout, elapsed, sleepLeft,
                   cycles, lastRun, result>>
    /\ UNCHANGED failed
    /\ UNCHANGED <<limiterVars, clientVars, worldVars>>

\* createBoardSnapshot: the cards request of one targeted list returns.
SnapCards ==
    /\ wpc = "snapCards"
    /\ LET lists == getLists
           listCards == getCardsByList(lists[nextList])
           built == [building EXCEPT
                        !.cards = MapSetAll(@, [i \in 1..Len(listCards) |->
                                                   CardSnapshot(listCards[i])])]
           next == NextTarget(listIds, nextList)
           log == Answered(requests, listCards)
       IN  IF next <= Len(lists)
           THEN /\ building' = built
                /\ nextList' = next
                /\ wpc' = "snapCards"
                /\ requests' = Append(log, Request("cards", lists[next], 0))
                /\ UNCHANGED <<snapshot, newSnapshot, boardSnapshots, storedIsSnapshot,
                               initialActionId>>
           ELSE SnapshotBuilt(built) /\ requests' = Append(log, AfterSnapshot)
    /\ UNCHANGED <<phase, listIds, pollInterval, timeout, elapsed, sleepLeft,
                   cycles, lastRun, result>>
    /\ UNCHANGED failed
    /\ UNCHANGED <<limiterVars, clientVars, worldVars>>

\* The lists request for the name map returns; the loop is entered.
Names ==
    /\ wpc = "names"
    /\ LoopTop
    /\ requests' = Answered(requests, getLists)
    /\ UNCHANGED <<phase, listIds, pollInterval, timeout, elapsed, building, nextList,
                   snapshot, newSnapshot, boardSnapshots, storedIsSnapshot, cycles,
                   lastRun, initialActionId>>
    /\ UNCHANGED failed
    /\ UNCHANGED <<limiterVars, clientVars, worldVars>>

\* The poll-interval timer fires: createBoardSnapshot issues its lists request.
Wake ==
    /\ TimerFired
    /\ wpc' = "snapLists"
    /\ requests' = Append(Pending(requests), Request("lists", NoId, 0))
    /\ phase' = "poll"
    /\ lastRun' = Undefined
    /\ UNCHANGED <<listIds, pollInterval, timeout, elapsed, sleepLeft, building,
                   nextList, snapshot, newSnapshot, boardSnapshots, storedIsSnapshot,
                   cycles, initialActionId, result>>
    /\ UNCHANGED failed
    /\ UNCHANGED <<limiterVars, clientVars, worldVars>>

\* (mutant) the loop compares with the entry of the shared store.
PreviousSnapshotStored == boardSnapshots[1]

\* The previous snapshot passed to detectChanges: the local variable.
PreviousSnapshot == snapshot

\* detectChanges: the activity request returns, the changes are computed,
\* and waitForChanges returns them or goes to the top of the loop.
Detect ==
    /\ wpc = "activity"
    /\ LET actions == getRecentActivity(ActivityLimit)
           run == detectChanges(PreviousSnapshot, newSnapshot, actions)
       IN  /\ lastRun' = Some([oldSnapshot |-> PreviousSnapshot, newSnapshot |-> newSnapshot,
                                actions |-> actions, changes |-> run.changes])
           /\ newSnapshot' = EmptySnapshot
           /\ IF Detected(run.changes)
                THEN /\ boardSnapshots' = Some(run.newSnapshot)
                     /\ storedIsSnapshot' = FALSE
                     /\ snapshot' = run.oldSnapshot
                     /\ result' = Some([changes |-> run.changes, timedOut |-> FALSE])
                     /\ wpc' = "returned"
                     /\ UNCHANGED sleepLeft
                ELSE /\ boardSnapshots' = IF storedIsSnapshot THEN Some(run.oldSnapshot)
                                          ELSE boardSnapshots
                     /\ storedIsSnapshot' = FALSE
                     /\ snapshot' = run.newSnapshot
                     /\ LoopTop
    /\ cycles' = Min(cycles + 1, MaxCycles)
    /\ requests' = Answered(requests, <<>>)
    /\ UNCHANGED <<phase, listIds, pollInterval, timeout, elapsed, building, nextList,
                   initialActionId>>
    /\ UNCHANGED failed
    /\ UNCHANGED <<limiterVars, clientVars, worldVars>>

\* One tick of the clock while an invocation runs.
Elapse ==
    /\ wpc \notin {"idle", "returned", "thrown"}
    /\ elapsed < timeout \/ sleepLeft > 0
    /\ elapsed' = Min(elapsed + 1, timeout)
    /\ sleepLeft' = Max(sleepLeft - 1, 0)
    /\ UNCHANGED <<wpc, phase, listIds, pollInterval, timeout, building, nextList,
                   snapshot, newSnapshot, boardSnapshots, storedIsSnapshot, cycles,
                   lastRun, initialActionId, result, requests>>
    /\ UNCHANGED failed
    /\ UNCHANGED <<limiterVars, clientVars, worldVars>>

\* (mutant) the loop catches the error and goes on polling.
OnFailureSwallowed == "sleep"

\* Where a failed upstream call leaves the invocation: createBoardSnapshot,
\* detectChanges and waitForChanges catch nothing, so the error handleRequest
\* throws ends the invocation.
OnFailure == "thrown"

\* An upstream call of the invocation fails with an error other than a quota
\* rejection: the lists or cards request of createBoardSnapshot, the lists
\* request for the name map, or the activity request of detectChanges.
RequestFails ==
    /\ wpc \in {"snapLists", "snapCards", "names", "activity"}
    /\ wpc' = OnFailure
    /\ failed' = TRUE
    /\ building' = EmptySnapshot
    /\ nextList' = 1
    /\ newSnapshot' = EmptySnapshot
    /\ UNCHANGED <<phase, listIds, pollInterval, timeout, elapsed, sleepLeft, snapshot,
                   boardSnapshots, storedIsSnapshot, cycles, lastRun, initialActionId,
                   result, requests>>
    /\ UNCHANGED <<limiterVars, clientVars, worldVars>>

WatchStep == SnapLists \/ SnapCards \/ Names \/ Wake \/ Detect

\* No file is there, and no tool has been called.
ServerIdle ==
    /\ files = {}
    /\ deleteResult = Undefined
    /\ tpc = "idle"
    /\ tool = "none"
    /\ toolArgs = Undefined
    /\ response = Undefined

ClientIdle ==
    /\ cpc = "idle"
    /\ cop = "none"
    /\ rejections = 0
    /\ backoffLeft = 0
    /\ sentLog = <<>>
    /\ outcome = "none"
    /\ failure = "none"

WatchIdle ==
    /\ wpc = "idle"
    /\ phase = "initial"
    /\ requests = <<>>
    /\ listIds = Undefined
    /\ pollInterval = 0
    /\ timeout = 0
    /\ elapsed = 0
    /\ sleepLeft = 0
    /\ building = EmptySnapshot
    /\ nextList = 1
    /\ snapshot = EmptySnapshot
    /\ newSnapshot = EmptySnapshot
    /\ boardSnapshots = Undefined
    /\ storedIsSnapshot = FALSE
    /\ cycles = 0
    /\ lastRun = Undefined
    /\ initialActionId = NoId
    /\ failed = FALSE
    /\ result = Undefined

\* A board with no card and no activity, for the runs that do not watch.
NoBoard ==
    /\ wCards = [c \in CardIds |-> [idList |-> NoId, idLabels |-> <<>>, desc |-> "d1"]]
    /\ wFeed = <<>>
    /\ events = 0

\* The board when the watch starts: card 1 in list 1, card 2 in list 2 or
\* not on the board; the feed empty or holding one earlier comment.
InitBoard ==
    /\ wCards \in
         { [c \in CardIds |->
              IF c = 1 THEN [idList |-> 1, idLabels |-> <<2, 1>>, desc |-> "d1"]
              ELSE IF c = 2 THEN second
              ELSE [idList |-> NoId, idLabels |-> <<>>, desc |-> "d1"]] :
           second \in { [idList |-> NoId, idLabels |-> <<>>, desc |-> "d1"],
                        [idList |-> NumLists, idLabels |-> <<1>>, desc |-> "d1"] } }
    /\ wFeed \in { <<>>,
                    <<[id |-> 1, type |-> "commentCard", card |-> 1, text |-> <<"done">>]>> }
    /\ events = 0

LimiterIdle ==
    /\ createTrelloRateLimiters
    /\ lpc = [c \in Callers |-> "idle"]
    /\ wakeIn = [c \in Callers |-> 0]
    /\ doneAge = [c \in Callers |-> 0]
    /\ waited = [c \in Callers |-> FALSE]

\* The list-id arguments tried: none, or the first list alone.
ListIdChoices == {Undefined, Some(<<1>>)}

Init ==
    /\ LimiterIdle
    /\ ClientIdle
    /\ ServerIdle
    /\ attachmentDir = FALSE
    /\ InitBoard
    /\ WatchIdle

Next ==
    \/ \E ids \in ListIdChoices, interval \in 0..MaxPollInterval, limit \in 0..MaxTimeout :
          Start(ids, interval, limit)
    \/ SnapLists
    \/ SnapCards
    \/ Names
    \/ Wake
    \/ Detect
    \/ Elapse
    \/ BoardChange

Spec == Init /\ [][Next]_vars

\* The list-id arguments tried on the quiet board: also the first list
\* together with an id that is no list of the board.
QuietListIdChoices == ListIdChoices \cup {Some(<<1, NumLists + 1>>)}

\* The watch of a board that nobody changes, over a wider range of poll
\* intervals and timeouts.
NextQuiet ==
    \/ \E ids \in QuietListIdChoices, interval \in 0..MaxQuietPollInterval,
          limit \in 0..MaxQuietTimeout :
          Start(ids, interval, limit)
    \/ SnapLists
    \/ SnapCards
    \/ Names
    \/ Wake
    \/ Detect
    \/ Elapse

SpecQuiet == Init /\ [][NextQuiet]_vars

\* Time advances while an invocation runs, and every continuation of the
\* invocation is eventually run (every upstream call returns).
LiveQuiet ==
    /\ SpecQuiet
    /\ WF_vars(Elapse)
    /\ WF_vars(WatchStep)

\* The snapshots another invocation on the same board writes to the store:
\* one without cards (its lists hold none), one with every card of the board.
OtherSnapshots ==
    { [cards |-> <<>>, lists |-> getLists, lastActionId |-> NoId],
      [cards |-> MapSetAll(<<>>, [c \in CardIds |->
                     [id |-> c, name |-> c, desc |-> "d2", idList |-> NumLists,
                      idLabels |-> <<>>]]),
       lists |-> getLists, lastActionId |-> NoId] }

\* Another invocation of waitForChanges on the same board calls
\* this.boardSnapshots.set(boardId, ...) with a snapshot of its own.
OtherInvocationWrites(snap) ==
    /\ boardSnapshots # Some(snap)
    /\ boardSnapshots' = Some(snap)
    /\ storedIsSnapshot' = FALSE
    /\ UNCHANGED <<wpc, phase, listIds, pollInterval, timeout, elapsed, sleepLeft,
                   building, nextList, snapshot, newSnapshot, cycles, lastRun,
                   initialActionId, failed, result, requests>>
    /\ UNCHANGED <<limiterVars, clientVars, worldVars>>

\* The watch of a board that nobody changes, while another invocation on
\* the same board writes to the store.
NextShared ==
    \/ \E ids \in ListIdChoices, interval \in 0..MaxPollInterval,
          limit \in 0..MaxQuietTimeout :
          Start(ids, interval, limit)
    \/ SnapLists
    \/ SnapCards
    \/ Names
    \/ Wake
    \/ Detect
    \/ Elapse
    \/ \E snap \in OtherSnapshots : OtherInvocationWrites(snap)

SpecShared == Init /\ [][NextShared]_vars

\* The watch of a board that nobody changes, against an upstream service
\* whose calls can fail.
NextFaulty ==
    \/ \E ids \in ListIdChoices, interval \in 0..MaxQuietPollInterval,
          limit \in 0..MaxQuietTimeout :
          Start(ids, interval, limit)
    \/ SnapLists
    \/ SnapCards
    \/ Names
    \/ Wake
    \/ Detect
    \/ Elapse
    \/ RequestFails

SpecFaulty == Init /\ [][NextFaulty]_vars

(***************************************************************************)
(* deleteLocalAttachment.  A path is absolute or relative and a sequence   *)
(* of segments; a resolved path is the sequence of segments below the      *)
(* root, and is compared as the string of characters it is written with.   *)
(***************************************************************************)
Segments == {"att", "attx", "f", ".."}

\* The characters of a segment: "attx" begins with the characters of "att".
SegChars(seg) ==
    CASE seg = "att" -> <<"a", "t", "t">>
      [] seg = "attx" -> <<"a", "t", "t", "x">>
      [] seg = "f" -> <<"f">>
      [] seg = "work" -> <<"w", "o", "r", "k">>
      [] seg = ".." -> <<".", ".">>
      [] OTHER -> <<"?">>

\* path.sep
Sep == <<"/">>

\* process.cwd()
Cwd == <<"work">>

\* config.attachmentDir, when it is set.
AttachmentDirPath == [abs |-> TRUE, segs |-> <<"att">>]

\* The file paths a caller passes.
RECURSIVE SeqsUpTo(_, _)
SeqsUpTo(S, n) ==
    IF n = 0 THEN {<<>>}
    ELSE LET shorter == SeqsUpTo(S, n - 1)
         IN  shorter \cup {Append(q, x) : q \in shorter, x \in S}

FilePaths == [abs : BOOLEAN, segs : SeqsUpTo(Segments, MaxPathLen)]

\* The files that may exist, and the directories that do.
CandidateFiles == {<<"att", "f">>, <<"attx", "f">>, <<"f">>}
Directories == {<<>>, <<"att">>, <<"attx">>, <<"work">>}

\* Normalisation of path.resolve: '..' removes the segment before it and
\* stays at the root.
RECURSIVE Normalize(_, _)
Normalize(done, rest) ==
    IF rest = <<>> THEN done
    ELSE IF Head(rest) = ".."
    THEN Normalize(IF done = <<>> THEN <<>> ELSE SubSeq(done, 1, Len(done) - 1), Tail(rest))
    ELSE Normalize(Append(done, Head(rest)), Tail(rest))

\* path.resolve(p): a relative path is taken from the working directory.
pathResolve(p) == Normalize(<<>>, IF p.abs THEN p.segs ELSE Cwd \o p.segs)

\* The string of a resolved path.
RECURSIVE Render(_)
Render(segs) ==
    IF segs = <<>> THEN Sep
    ELSE IF Len(segs) = 1 THEN Sep \o SegChars(segs[1])
    ELSE Render(SubSeq(segs, 1, Len(segs) - 1)) \o Sep \o SegChars(segs[Len(segs)])

\* String.prototype.startsWith
StartsWith(text, prefix) ==
    Len(text) >= Len(prefix) /\ SubSeq(text, 1, Len(prefix)) = prefix

\* (mutant) the prefix compared is the directory without the separator.
WithoutSep(dir) == Render(dir)

\* resolvedAttachmentDir + path.sep
WithSep(dir) == Render(dir) \o Sep

\* fs.existsSync
existsSync(resolved) == resolved \in files \/ resolved \in Directories

DeleteResult(filePath, success, message) ==
    Some([filePath |-> filePath, success |-> success, message |-> message])

\* deleteLocalAttachment(filePath); unlinkThrows: fs.unlinkSync fails on a
\* file that exists (it always fails on a directory).
deleteLocalAttachment(filePath, unlinkThrows) ==
    LET resolvedPath == pathResolve(filePath)
        resolvedAttachmentDir == pathResolve(AttachmentDirPath)
    IN  IF ~attachmentDir
             THEN /\ deleteResult' = DeleteResult(filePath, FALSE, "dirNotSet")
                  /\ UNCHANGED files
           ELSE IF ~StartsWith(Render(resolvedPath), WithSep(resolvedAttachmentDir))
             THEN /\ deleteResult' = DeleteResult(filePath, FALSE, "securityError")
                  /\ UNCHANGED files
           ELSE IF ~existsSync(resolvedPath)
             THEN /\ deleteResult' = DeleteResult(filePath, FALSE, "notFound")
                  /\ UNCHANGED files
           ELSE IF resolvedPath \in files /\ ~unlinkThrows
             THEN /\ deleteResult' = DeleteResult(filePath, TRUE, "deleted")
                  /\ files' = files \ {resolvedPath}
           ELSE /\ deleteResult' = DeleteResult(filePath, FALSE, "failedToDelete")
                /\ UNCHANGED files

\* A direct call of the client's method.
DeleteFile(filePath, unlinkThrows) ==
    /\ deleteLocalAttachment(filePath, unlinkThrows)
    /\ UNCHANGED <<tpc, tool, toolArgs, response>>
    /\ UNCHANGED <<cpc, cop, rejections, backoffLeft, sentLog, outcome, attachmentDir,
                   failure>>
    /\ UNCHANGED <<limiterVars, worldVars, watchVars>>

(***************************************************************************)
(* The limiter alone, and the client against the limiter.                  *)
(***************************************************************************)
InitLimiter ==
    /\ LimiterIdle
    /\ ClientIdle
    /\ ServerIdle
    /\ attachmentDir = FALSE
    /\ NoBoard
    /\ WatchIdle

NextLimiter ==
    \/ \E c \in Callers : Call(c)
    \/ \E c \in Callers : TryAcquire(c)
    \/ \E c \in Callers : Resume(c)
    \/ Tick

SpecLimiter == InitLimiter /\ [][NextLimiter]_vars

\* Time keeps advancing and every caller's continuation is eventually run.
LiveLimiter ==
    /\ SpecLimiter
    /\ WF_vars(Tick)
    /\ \A c \in Callers : WF_vars(TryAcquire(c)) /\ WF_vars(Resume(c))

\* The client: one operation after the other, each against the limiter.
InitClient ==
    /\ LimiterIdle
    /\ ClientIdle
    /\ ServerIdle
    /\ attachmentDir \in BOOLEAN
    /\ NoBoard
    /\ WatchIdle

\* The operation has ended; the client is free for the next one.
FinishOp ==
    /\ cpc \in {"returned", "thrown"}
    /\ cpc' = "idle"
    /\ UNCHANGED <<cop, rejections, backoffLeft, sentLog, outcome, attachmentDir, failure,
                   serverVars>>
    /\ UNCHANGED <<limiterVars, worldVars, watchVars>>

NextClient ==
    \/ \E op \in Operations : StartOp(op)
    \/ TryAcquire(ClientCaller)
    \/ Resume(ClientCaller)
    \/ SendRequest
    \/ \E isUpload \in BOOLEAN : RespondOk(isUpload)
    \/ RespondQuota
    \/ Retry
    \/ \E isAxiosError \in BOOLEAN : RespondError(isAxiosError)
    \/ SendContentRequest
    \/ \E ok \in BOOLEAN : RespondContent(ok)
    \/ FinishOp
    \/ Tick

SpecClient == InitClient /\ [][NextClient]_vars

\* The client's file operations, on a directory that holds any of the files.
InitFiles ==
    /\ LimiterIdle
    /\ ClientIdle
    /\ deleteResult = Undefined
    /\ tpc = "idle"
    /\ tool = "none"
    /\ toolArgs = Undefined
    /\ response = Undefined
    /\ files \in SUBSET CandidateFiles
    /\ attachmentDir \in BOOLEAN
    /\ NoBoard
    /\ WatchIdle

NextFiles ==
    \E filePath \in FilePaths, unlinkThrows \in BOOLEAN :
        DeleteFile(filePath, unlinkThrows)

SpecFiles == InitFiles /\ [][NextFiles]_vars

(***************************************************************************)
(* The CallToolRequest handler of the server.  The arguments of a call are *)
(* the set of argument names that carry a truthy value.                    *)
(***************************************************************************)
\* The tools returned by the ListToolsRequest handler.
AdvertisedTools ==
    {"trello_get_cards_by_list", "trello_get_lists", "trello_get_recent_activity",
     "trello_add_card", "trello_update_card", "trello_archive_card", "trello_add_list",
     "trello_archive_list", "trello_get_my_cards", "trello_search_all_boards",
     "trello_move_card", "trello_add_comment", "trello_get_labels", "trello_add_label",
     "trello_wait_for_changes", "trello_get_card_attachments",
     "trello_download_attachment", "trello_delete_local_attachment"}

\* The names a request can carry: an advertised tool or another name.
ToolNames == AdvertisedTools \cup {"trello_unknown"}

\* inputSchema.required of each tool.
Required(name) ==
    CASE name \in {"trello_get_cards_by_list", "trello_archive_list"} -> {"listId"}
      [] name \in {"trello_get_lists", "trello_get_recent_activity", "trello_get_labels",
                   "trello_wait_for_changes"} -> {"boardId"}
      [] name = "trello_add_card" -> {"listId", "name"}
      [] name \in {"trello_update_card", "trello_archive_card",
                   "trello_get_card_attachments"} -> {"cardId"}
      [] name = "trello_add_list" -> {"boardId", "name"}
      [] name = "trello_search_all_boards" -> {"query"}
      [] name = "trello_move_card" -> {"cardId", "listId"}
      [] name = "trello_add_comment" -> {"cardId", "text"}
      [] name = "trello_add_label" -> {"boardId", "name", "color"}
      [] name = "trello_download_attachment" -> {"cardId", "attachmentId"}
      [] name = "trello_delete_local_attachment" -> {"filePath"}
      [] OTHER -> {}

\* The arguments the handler's case of each tool tests with if (!args.x).
Checked(name) ==
    CASE name \in {"trello_get_cards_by_list", "trello_archive_list"} -> {"listId"}
      [] name \in {"trello_get_lists", "trello_get_recent_activity", "trello_get_labels",
                   "trello_wait_for_changes"} -> {"boardId"}
      [] name = "trello_add_card" -> {"listId", "name"}
      [] name \in {"trello_update_card", "trello_archive_card",
                   "trello_get_card_attachments"} -> {"cardId"}
      [] name = "trello_add_list" -> {"boardId", "name"}
      [] name = "trello_move_card" -> {"cardId", "listId"}
      [] name = "trello_add_comment" -> {"cardId", "text"}
      [] name = "trello_add_label" -> {"boardId", "name", "color"}
      [] name = "trello_download_attachment" -> {"cardId", "attachmentId"}
      [] name = "trello_delete_local_attachment" -> {"filePath"}
      [] OTHER -> {}

\* The client operation the handler's case of each tool awaits.
ToolOp(name) ==
    CASE name = "trello_get_cards_by_list" -> "getCardsByList"
      [] name = "trello_get_lists" -> "getLists"
      [] name = "trello_get_recent_activity" -> "getRecentActivity"
      [] name = "trello_add_card" -> "addCard"
      [] name = "trello_update_card" -> "updateCard"
      [] name = "trello_archive_card" -> "archiveCard"
      [] name = "trello_add_list" -> "addList"
      [] name = "trello_archive_list" -> "archiveList"
      [] name = "trello_get_my_cards" -> "getMyCards"
      [] name = "trello_search_all_boards" -> "searchAllBoards"
      [] name = "trello_move_card" -> "moveCard"
      [] name = "trello_add_comment" -> "addComment"
      [] name = "trello_get_labels" -> "getLabels"
      [] name = "trello_add_label" -> "addLabel"
      [] name = "trello_get_card_attachments" -> "getCardAttachments"
      [] name = "trello_download_attachment" -> "downloadAttachment"
      [] name = "trello_wait_for_changes" -> "waitForChanges"
      [] name = "trello_delete_local_attachment" -> "deleteLocalAttachment"
      [] OTHER -> "none"

\* The file paths of the calls of trello_delete_local_attachment.
ToolFilePaths ==
    { [abs |-> TRUE, segs |-> <<"att", "f">>], [abs |-> TRUE, segs |-> <<"attx", "f">>] }

\* { content: [{ type: "text", text: JSON.stringify(...) }] }: the text is
\* the JSON of a result (json = "result") or of { error: message }.
Content(json, of) == <<[type |-> "text", json |-> json, of |-> of]>>

\* return { content: [{ type: "text", text: JSON.stringify(response) }] }
HandlerReturns(name) ==
    /\ tpc' = "replied"
    /\ response' = Some(Content("result", ToolOp(name)))

\* (mutant) the handler has no catch: the error leaves the handler.
HandlerRethrows(message) ==
    /\ tpc' = "propagated"
    /\ response' = Undefined

\* catch (error): return the JSON of { error: message } as the one text item.
HandlerCatch(message) ==
    /\ tpc' = "replied"
    /\ response' = Some(Content("error", message))

\* A request arrives and the handler runs up to its first await: the test
\* of the arguments object, the switch on the name, the case's test of its
\* arguments; trello_delete_local_attachment has no await and ends here.
CallTool(name, hasArguments, args) ==
    /\ tpc = "idle"
    /\ tool' = name
    /\ toolArgs' = IF hasArguments THEN Some(args) ELSE Undefined
    /\ IF ~hasArguments
         THEN HandlerCatch("No arguments provided") /\ UNCHANGED <<files, deleteResult>>
       ELSE IF name \notin AdvertisedTools
         THEN HandlerCatch("Unknown tool") /\ UNCHANGED <<files, deleteResult>>
       ELSE IF ~(Checked(name) \subseteq args)
         THEN HandlerCatch("Missing required argument") /\ UNCHANGED <<files, deleteResult>>
       ELSE IF name = "trello_delete_local_attachment"
         THEN /\ \E filePath \in ToolFilePaths, unlinkThrows \in BOOLEAN :
                    deleteLocalAttachment(filePath, unlinkThrows)
              /\ HandlerReturns(name)
       ELSE /\ tpc' = "calling"
            /\ response' = Undefined
            /\ UNCHANGED <<files, deleteResult>>
    /\ UNCHANGED <<cpc, cop, rejections, backoffLeft, sentLog, outcome, attachmentDir,
                   failure>>
    /\ UNCHANGED <<limiterVars, worldVars, watchVars>>

\* await trelloClient.<operation>(...)
InvokeClient ==
    /\ tpc = "calling"
    /\ tool # "trello_wait_for_changes"
    /\ StartOp(ToolOp(tool))

\* await trelloClient.waitForChanges(boardId, listIds, pollInterval, timeout)
InvokeWatch(ids, interval, limit) ==
    /\ tpc = "calling"
    /\ tool = "trello_wait_for_changes"
    /\ Start(ids, interval, limit)

\* The awaited operation has returned or thrown: the handler returns the
\* result, or its catch returns the error.
ReplyClient ==
    /\ tpc = "calling"
    /\ tool # "trello_wait_for_changes"
    /\ cpc \in {"returned", "thrown"}
    /\ cpc' = "idle"
    /\ IF cpc = "returned" THEN HandlerReturns(tool) ELSE HandlerCatch(outcome)
    /\ UNCHANGED <<files, deleteResult, tool, toolArgs>>
    /\ UNCHANGED <<cop, rejections, backoffLeft, sentLog, outcome, attachmentDir, failure>>
    /\ UNCHANGED <<limiterVars, worldVars, watchVars>>

ReplyWatch ==
    /\ tpc = "calling"
    /\ tool = "trello_wait_for_changes"
    /\ wpc \in {"returned", "thrown"}
    /\ IF wpc = "returned" THEN HandlerReturns(tool) ELSE HandlerCatch("watchFailure")
    /\ UNCHANGED <<files, deleteResult, tool, toolArgs>>
    /\ UNCHANGED <<cpc, cop, rejections, backoffLeft, sentLog, outcome, attachmentDir,
                   failure>>
    /\ UNCHANGED <<limiterVars, worldVars, watchVars>>

\* The server on start and the handling of its first request: the client is
\* constructed, the attachment directory holds two files, no board change
\* happens during the call.
InitTools ==
    /\ LimiterIdle
    /\ ClientIdle
    /\ deleteResult = Undefined
    /\ tpc = "idle"
    /\ tool = "none"
    /\ toolArgs = Undefined
    /\ response = Undefined
    /\ files = {<<"att", "f">>, <<"attx", "f">>}
    /\ attachmentDir \in BOOLEAN
    /\ NoBoard
    /\ WatchIdle

NextTools ==
    \/ \E name \in ToolNames, hasArguments \in BOOLEAN :
          \E args \in SUBSET Required(name) : CallTool(name, hasArguments, args)
    \/ InvokeClient
    \/ \E interval \in 0..MaxPollInterval, limit \in 0..MaxTimeout :
          InvokeWatch(Undefined, interval, limit)
    \/ ReplyClient
    \/ ReplyWatch
    \/ TryAcquire(ClientCaller)
    \/ Resume(ClientCaller)
    \/ SendRequest
    \/ \E isUpload \in BOOLEAN : RespondOk(isUpload)
    \/ RespondQuota
    \/ Retry
    \/ \E isAxiosError \in BOOLEAN : RespondError(isAxiosError)
    \/ SendContentRequest
    \/ \E ok \in BOOLEAN : RespondContent(ok)
    \/ Tick
    \/ SnapLists
    \/ SnapCards
    \/ Names
    \/ Wake
    \/ Detect
    \/ Elapse
    \/ RequestFails

SpecTools == InitTools /\ [][NextTools]_vars

\* Time keeps advancing, and the continuations of the operation in flight
\* (the limiter's check, the interceptor's return, the re-attempt after the
\* delay) are eventually run.
LiveClient ==
    /\ SpecClient
    /\ WF_vars(Tick)
    /\ WF_vars(TryAcquire(ClientCaller))
    /\ WF_vars(Resume(ClientCaller))
    /\ WF_vars(SendRequest)
    /\ WF_vars(Retry)

(***************************************************************************)
(* Properties of the rate limiter.                                         *)
(***************************************************************************)
\* Calls that completed within the last Window ticks, the current one included.
RecentlyCompleted == {c \in Callers : lpc[c] = "done" /\ doneAge[c] < Window}

C7_BothBucketsOrNone ==
    [][\A c \in Callers :
          /\ (lpc[c] = "calling" /\ lpc'[c] = "done") =>
                \A b \in Buckets :
                    /\ (IF sinceRefill[b] >= Window THEN Capacity(b) ELSE tokens[b]) >= 1
                    /\ tokens'[b] =
                         (IF sinceRefill[b] >= Window THEN Capacity(b) ELSE tokens[b]) - 1
          /\ (lpc[c] = "calling" /\ lpc'[c] = "suspended") =>
                \A b \in Buckets :
                    tokens'[b] = (IF sinceRefill[b] >= Window THEN Capacity(b) ELSE tokens[b])
      ]_vars

\* One call has completed and emptied the token bucket while another is
\* suspended, the credential-key bucket still holding tokens.
C7_Witness ==
    \E c, d \in Callers :
        /\ lpc[c] = "done" /\ lpc[d] = "suspended"
        /\ tokens["token"] = 0 /\ tokens["apiKey"] >= 1

\* C8: every call that has been issued eventually completes.
C8_NoStarvation ==
    \A c \in Callers : (lpc[c] \in {"calling", "suspended"}) ~> (lpc[c] = "done")

\* All calls have completed, several of them after having been suspended.
C8_Witness ==
    /\ \A c \in Callers : lpc[c] = "done"
    /\ Cardinality({c \in Callers : waited[c]}) >= 2

(***************************************************************************)
(* Properties of the client.                                               *)
(***************************************************************************)
\* C4: every request an operation sends upstream was preceded by its own
\* completed waitForAvailable().
C4_EveryRequestGated ==
    \A i \in 1..Len(sentLog) : sentLog[i].gated

(***************************************************************************)
(* Properties of the watch.                                                *)
(***************************************************************************)
Commented(changes) == {i \in 1..Len(changes) : changes[i].type = "commented"}

\* C1: a returned result is either changes found (non-empty, timedOut false)
\* or timed out (empty, timedOut true).
C1_ResultShape ==
    result # Undefined =>
        \/ result[1].changes # <<>> /\ result[1].timedOut = FALSE
        \/ result[1].changes = <<>> /\ result[1].timedOut = TRUE

\* A watch has timed out after polling twice or more.
C1_Witness ==
    /\ result # Undefined
    /\ result[1].timedOut
    /\ cycles >= 2

\* C2: every commented record returned stems from a comment that entered the
\* feed after the initial snapshot was captured.
C2_OnlyNewComments ==
    result # Undefined =>
        \A i \in Commented(result[1].changes) :
            \E k \in 1..Len(wFeed) :
                /\ wFeed[k].type = "commentCard"
                /\ wFeed[k].id > initialActionId
                /\ wFeed[k].card = result[1].changes[i].cardId
                /\ wFeed[k].text = result[1].changes[i].comment

\* C5: a poll cycle whose detector output is non-empty ends the invocation
\* with exactly that output and timedOut false, and a returned invocation
\* does nothing more.
C5_ReturnsOnFirstDetection ==
    [][ /\ (lastRun' # Undefined /\ lastRun'[1].changes # <<>>) =>
              /\ wpc' = "returned"
              /\ result' = Some([changes |-> lastRun'[1].changes, timedOut |-> FALSE])
        /\ wpc = "returned" => UNCHANGED watchVars
      ]_vars

\* A watch returned the changes its second or a later cycle detected.
C5_Witness ==
    /\ wpc = "returned"
    /\ result[1].timedOut = FALSE
    /\ result[1].changes = lastRun[1].changes
    /\ cycles >= 2

\* C6: an invocation returns, and with the timeout result when it returns no
\* changes.
C6_WatchReturns ==
    (wpc # "idle") ~>
        (wpc = "returned" /\ (result[1].changes = <<>> => result[1].timedOut))

\* A watch with a zero poll interval has timed out after polling.
C6_Witness ==
    /\ wpc = "returned"
    /\ result[1].timedOut
    /\ pollInterval = 0
    /\ cycles >= 1

\* The feed handed to the detector holds nothing newer than the last-seen
\* activity id of the previous snapshot.
NothingNewer(run) ==
    /\ run.oldSnapshot.lastActionId # NoId
    /\ \A k \in 1..Len(run.actions) : run.actions[k].id <= run.oldSnapshot.lastActionId

\* C9: with a last-seen activity id A and no feed entry newer than A, the
\* detector emits no commented record.
C9_NoOldComments ==
    (lastRun # Undefined /\ NothingNewer(lastRun[1])) =>
        Commented(lastRun[1].changes) = {}

\* The detector ran with nothing newer than A in the feed, the feed holding
\* a comment on a card of the current snapshot.
C9_Witness ==
    /\ lastRun # Undefined
    /\ NothingNewer(lastRun[1])
    /\ \E k \in 1..Len(lastRun[1].actions) :
          /\ lastRun[1].actions[k].type = "commentCard"
          /\ MapHas(lastRun[1].newSnapshot.cards, lastRun[1].actions[k].card)

\* The two snapshots hold the same cards, equal but for the list of card c.
DiffersOnlyInList(old, new, c) ==
    /\ {old.cards[i].id : i \in 1..Len(old.cards)} = {new.cards[i].id : i \in 1..Len(new.cards)}
    /\ MapHas(old.cards, c)
    /\ MapGet(old.cards, c).idList # MapGet(new.cards, c).idList
    /\ [MapGet(old.cards, c) EXCEPT !.idList = NoId] = [MapGet(new.cards, c) EXCEPT !.idList = NoId]
    /\ \A i \in 1..Len(old.cards) :
          old.cards[i].id # c => MapGet(new.cards, old.cards[i].id) = old.cards[i]

\* The feed handed to the detector holds no entry the previous snapshot has
\* not seen.
NoNewEntries(run) == run.actions = <<>> \/ NothingNewer(run)

\* C10: for two snapshots that differ only in the list of one card, and
\* a feed with no new entry, the detector's output is one moved record of
\* that card, with the old and the new list id.
C10_OneMovedRecord ==
    lastRun # Undefined =>
        \A c \in CardIds :
            ( /\ DiffersOnlyInList(lastRun[1].oldSnapshot, lastRun[1].newSnapshot, c)
              /\ NoNewEntries(lastRun[1]) ) =>
            /\ Len(lastRun[1].changes) = 1
            /\ lastRun[1].changes[1].type = "moved"
            /\ lastRun[1].changes[1].cardId = c
            /\ lastRun[1].changes[1].oldListId = MapGet(lastRun[1].oldSnapshot.cards, c).idList
            /\ lastRun[1].changes[1].listId = MapGet(lastRun[1].newSnapshot.cards, c).idList

\* The detector compared two snapshots of two cards that differ only in the
\* list of one of them.
C10_Witness ==
    /\ lastRun # Undefined
    /\ Len(lastRun[1].oldSnapshot.cards) = 2
    /\ NoNewEntries(lastRun[1])
    /\ \E c \in CardIds :
          DiffersOnlyInList(lastRun[1].oldSnapshot, lastRun[1].newSnapshot, c)

(***************************************************************************)
(* Properties of the change detector, read off the latest poll cycle.      *)
(***************************************************************************)
\* The card ids of a snapshot.
Keys(snap) == {snap.cards[i].id : i \in 1..Len(snap.cards)}

\* The positions of the records of one type about one card.
RecordsOf(changes, c, type) ==
    {i \in 1..Len(changes) : changes[i].cardId = c /\ changes[i].type = type}

PerCardTypes == {"moved", "label_changed", "description_changed"}

\* C11: a card of the current snapshot that the previous one lacks gets
\* exactly one added record and no moved, label_changed or
\* description_changed record; a card of both snapshots gets no added record.
C11_AddedIsExclusive ==
    lastRun # Undefined =>
        LET run == lastRun[1]
        IN  \A c \in Keys(run.newSnapshot) :
                IF c \notin Keys(run.oldSnapshot)
                THEN /\ Cardinality(RecordsOf(run.changes, c, "added")) = 1
                     /\ \A t \in PerCardTypes : RecordsOf(run.changes, c, t) = {}
                ELSE RecordsOf(run.changes, c, "added") = {}

\* The detector reported one card as added and another change of a card it
\* knew before.
C11_Witness ==
    /\ lastRun # Undefined
    /\ \E c \in Keys(lastRun[1].newSnapshot) \ Keys(lastRun[1].oldSnapshot) :
          RecordsOf(lastRun[1].changes, c, "added") # {}
    /\ \E d \in Keys(lastRun[1].newSnapshot) \cap Keys(lastRun[1].oldSnapshot) :
          \E t \in PerCardTypes : RecordsOf(lastRun[1].changes, d, t) # {}

\* The set of label ids of a card.
LabelSet(ls) == {ls[i] : i \in 1..Len(ls)}

\* Two snapshots of one card that show the same card.
SameCard(a, b) ==
    /\ a.idList = b.idList
    /\ a.name = b.name
    /\ a.desc = b.desc
    /\ Len(a.idLabels) = Len(b.idLabels)
    /\ LabelSet(a.idLabels) = LabelSet(b.idLabels)

\* The current snapshot is the previous one with some cards removed.
OnlyRemoved(old, new) ==
    /\ Keys(new) \subseteq Keys(old)
    /\ Keys(new) # Keys(old)
    /\ \A c \in Keys(new) : SameCard(MapGet(old.cards, c), MapGet(new.cards, c))

\* C12: every record is about a card of the current snapshot, so a card of
\* the previous snapshot that the current one lacks gets no record, and a
\* cycle whose only difference is removed cards yields no changes.
C12_OnlyCurrentCards ==
    lastRun # Undefined =>
        LET run == lastRun[1]
        IN  /\ \A i \in 1..Len(run.changes) :
                  run.changes[i].cardId \in Keys(run.newSnapshot)
            /\ (OnlyRemoved(run.oldSnapshot, run.newSnapshot) /\ NoNewEntries(run)) =>
                  run.changes = <<>>

\* The detector compared a snapshot with a later one that only lacks a card.
C12_Witness ==
    /\ lastRun # Undefined
    /\ OnlyRemoved(lastRun[1].oldSnapshot, lastRun[1].newSnapshot)
    /\ NoNewEntries(lastRun[1])
    /\ lastRun[1].changes = <<>>

\* C13: for a card of both snapshots, label arrays that are permutations of
\* one set give no label_changed record; there is a label_changed record,
\* and then one carrying the previous label set, exactly when the sorted,
\* comma-joined label ids differ.
C13_LabelChange ==
    lastRun # Undefined =>
        LET run == lastRun[1]
        IN  \A c \in Keys(run.newSnapshot) \cap Keys(run.oldSnapshot) :
                LET old == MapGet(run.oldSnapshot.cards, c).idLabels
                    new == MapGet(run.newSnapshot.cards, c).idLabels
                    recs == RecordsOf(run.changes, c, "label_changed")
                IN  /\ (Len(old) = Len(new) /\ LabelSet(old) = LabelSet(new)) => recs = {}
                    /\ recs # {} <=> Join(SortLabels(old)) # Join(SortLabels(new))
                    /\ Cardinality(recs) <= 1
                    /\ \A i \in recs :
                          /\ Len(run.changes[i].oldLabels) = Len(old)
                          /\ LabelSet(run.changes[i].oldLabels) = LabelSet(old)

\* The detector compared two snapshots of a card whose label arrays hold the
\* same two labels in different orders, and reported no label change.
C13_Witness ==
    /\ lastRun # Undefined
    /\ \E c \in Keys(lastRun[1].newSnapshot) \cap Keys(lastRun[1].oldSnapshot) :
          /\ MapGet(lastRun[1].oldSnapshot.cards, c).idLabels
               # MapGet(lastRun[1].newSnapshot.cards, c).idLabels
          /\ LabelSet(MapGet(lastRun[1].oldSnapshot.cards, c).idLabels)
               = LabelSet(MapGet(lastRun[1].newSnapshot.cards, c).idLabels)
          /\ Len(MapGet(lastRun[1].oldSnapshot.cards, c).idLabels) = 2
          /\ RecordsOf(lastRun[1].changes, c, "label_changed") = {}

\* The text holds the marker as a run of consecutive words.
ContainsMarker(text) ==
    \E i \in 1..Len(text) :
        /\ i + Len(Marker) - 1 <= Len(text)
        /\ \A k \in 1..Len(Marker) : text[i + k - 1] = Marker[k]

\* The comment entries among the scanned ones whose card the snapshot holds.
CommentHits(run) ==
    SelectSeq(Scanned(run.actions, run.oldSnapshot.lastActionId),
              LAMBDA a : a.type = "commentCard" /\ a.card \in Keys(run.newSnapshot))

CommentRecords(changes) == SelectSeq(changes, LAMBDA r : r.type = "commented")

\* C14: the commented records are, one for one, the scanned commentCard
\* entries whose card is in the current snapshot; each carries the comment
\* text, and isClaudeComment exactly when the text contains the marker.
C14_CommentRecords ==
    lastRun # Undefined =>
        LET hits == CommentHits(lastRun[1])
            recs == CommentRecords(lastRun[1].changes)
        IN  /\ Len(recs) = Len(hits)
            /\ \A i \in 1..Len(recs) :
                  /\ recs[i].cardId = hits[i].card
                  /\ recs[i].comment = hits[i].text
                  /\ recs[i].isClaudeComment = ContainsMarker(hits[i].text)

\* The detector scanned a marked comment followed by more text and an entry
\* that is no comment, and reported the marked comment.
C14_Witness ==
    /\ lastRun # Undefined
    /\ \E i \in 1..Len(lastRun[1].changes) :
          /\ lastRun[1].changes[i].isClaudeComment
          /\ Len(lastRun[1].changes[i].comment) > Len(Marker)
    /\ \E k \in 1..Len(lastRun[1].actions) : lastRun[1].actions[k].type # "commentCard"

\* Position of a card in the card map of a snapshot.
Pos(snap, c) == CHOOSE i \in 1..Len(snap.cards) : snap.cards[i].id = c

\* Order of the checks of the per-card loop.
Rank(type) ==
    CASE type = "moved" -> 1
      [] type = "label_changed" -> 2
      [] type = "description_changed" -> 3
      [] OTHER -> 0

\* C15: commented records come before all per-card records and follow the
\* order of the feed; per-card records follow the order of the current
\* snapshot's card map and, for one card, the order moved, label_changed,
\* description_changed.
C15_RecordOrder ==
    lastRun # Undefined =>
        LET run == lastRun[1]
            ch == run.changes
        IN  /\ \A i, j \in 1..Len(ch) :
                  i < j =>
                     /\ ch[j].type = "commented" => ch[i].type = "commented"
                     /\ (ch[i].type # "commented" /\ ch[j].type # "commented") =>
                           /\ Pos(run.newSnapshot, ch[i].cardId)
                                <= Pos(run.newSnapshot, ch[j].cardId)
                           /\ ch[i].cardId = ch[j].cardId => Rank(ch[i].type) < Rank(ch[j].type)
            /\ \E f \in [Commented(ch) -> 1..Len(run.actions)] :
                  /\ \A i \in Commented(ch) :
                        /\ run.actions[f[i]].type = "commentCard"
                        /\ run.actions[f[i]].card = ch[i].cardId
                        /\ run.actions[f[i]].text = ch[i].comment
                  /\ \A i, j \in Commented(ch) : i < j => f[i] < f[j]

\* The detector reported a comment and then records of two cards.
C15_Witness ==
    /\ lastRun # Undefined
    /\ Commented(lastRun[1].changes) # {}
    /\ \E i, j \in 1..Len(lastRun[1].changes) :
          /\ i < j
          /\ lastRun[1].changes[i].type # "commented"
          /\ lastRun[1].changes[j].type # "commented"
          /\ lastRun[1].changes[i].cardId # lastRun[1].changes[j].cardId

\* C16: the detector, run again on the two snapshots as its first run left
\* them and on the same feed, returns the output of the first run.
C16_SameOutputTwice ==
    lastRun # Undefined =>
        LET run == lastRun[1]
            first == detectChanges(run.oldSnapshot, run.newSnapshot, run.actions)
            second == detectChanges(first.oldSnapshot, first.newSnapshot, run.actions)
        IN  /\ first.changes = run.changes
            /\ second.changes = first.changes

\* The detector reported changes after a run that wrote into both snapshots.
C16_Witness ==
    /\ lastRun # Undefined
    /\ lastRun[1].changes # <<>>
    /\ LET first == detectChanges(lastRun[1].oldSnapshot, lastRun[1].newSnapshot,
                                  lastRun[1].actions)
       IN  /\ first.oldSnapshot.cards # lastRun[1].oldSnapshot.cards
           /\ first.newSnapshot.cards # lastRun[1].newSnapshot.cards
           /\ first.newSnapshot.lastActionId # lastRun[1].newSnapshot.lastActionId

(***************************************************************************)
(* Failures of upstream calls during a watch.                              *)
(***************************************************************************)
\* The positions at which the invocation awaits an upstream call.
AwaitsUpstream == wpc \in {"snapLists", "snapCards", "names", "activity"}

\* C17: an upstream call that fails during a watch ends the invocation at
\* once with that failure: no result is returned, and the invocation neither
\* sleeps, polls nor calls upstream again.
C17_FailurePropagates ==
    [][ /\ (~failed /\ failed') =>
              /\ AwaitsUpstream
              /\ wpc' = "thrown"
              /\ result' = Undefined
        /\ wpc = "thrown" => UNCHANGED watchVars
      ]_vars

\* An upstream call failed in the second or a later poll cycle of a watch.
C17_Witness ==
    /\ failed
    /\ wpc = "thrown"
    /\ result = Undefined
    /\ phase = "poll"
    /\ cycles >= 1

(***************************************************************************)
(* Properties of handleRequest.                                            *)
(***************************************************************************)
\* The requests the operation in flight has sent through axiosInstance.
InstanceSends == SelectSeq(sentLog, LAMBDA e : e.req = InstanceRequest(cop))

C19_FailureNotRetried ==
    /\ [][ /\ (failure' # failure /\ failure' # "none") =>
                 /\ cpc = "inflight"
                 /\ cpc' = "thrown"
                 /\ sentLog' = sentLog
                 /\ outcome' = (IF failure' = "axios" THEN "apiError" ELSE "otherError")
           /\ cpc = "thrown" =>
                 /\ sentLog' = sentLog
                 /\ outcome' = outcome
                 /\ cpc' \in {"thrown", "idle"}
         ]_vars
    /\ [](cpc = "thrown" =>
             /\ failure # "none"
             /\ Len(sentLog) = rejections + 1)

\* The only attempt of an operation failed with an axios error.
C19_Witness ==
    /\ cpc = "thrown"
    /\ failure = "axios"
    /\ outcome = "apiError"
    /\ rejections = 0
    /\ Len(sentLog) = 1

(***************************************************************************)
(* The watch with a poll interval of 10 ms and a timeout of 25 ms on a     *)
(* board that nobody changes; one tick stands for 5 ms.                    *)
(***************************************************************************)
\* The feed holds no comment (a comment that is in the feed when the watch
\* starts is reported by the first cycle, see C2).
NoComments == \A k \in 1..Len(wFeed) : wFeed[k].type # "commentCard"

ScenarioWatch == wpc # "idle" /\ pollInterval = 2 /\ timeout = 5 /\ NoComments

\* C20 (as stated): the watch returns the timeout result after two poll
\* cycles and never performs a third.
C20_TwoCyclesOnly ==
    ScenarioWatch =>
        /\ wpc = "returned" => result = Some([changes |-> <<>>, timedOut |-> TRUE])
        /\ cycles <= 2

\* C20 (amended): the watch returns the timeout result after at most three
\* poll cycles: the loop condition is tested before the sleep, so a third
\* cycle whose sleep starts before the deadline is still performed, and no
\* fourth.
C20_AtMostThreeCycles ==
    ScenarioWatch =>
        /\ wpc = "returned" => result = Some([changes |-> <<>>, timedOut |-> TRUE])
        /\ cycles >= 3 => wpc = "returned"

\* The watch has timed out after a third poll cycle.
C20_Witness ==
    /\ ScenarioWatch
    /\ wpc = "returned"
    /\ result[1].timedOut
    /\ cycles = 3

(***************************************************************************)
(* Properties of deleteLocalAttachment.                                    *)
(***************************************************************************)
\* The path lies below the directory, at least one segment deeper.
StrictlyInside(resolved, dir) ==
    /\ Len(resolved) > Len(dir)
    /\ \A i \in 1..Len(dir) : resolved[i] = dir[i]

\* C21: a call removes at most the file at the resolved path it was given,
\* and only when the attachment directory is configured and that path lies
\* strictly inside it; it answers success exactly when it removed the file,
\* so with no directory configured, a path outside the directory, the
\* directory itself, a sibling whose name begins with the directory's name
\* or a file that does not exist it answers success=false and removes nothing.
C21_DeletesOnlyInside ==
    [][ deleteResult' # Undefined =>
          LET call == deleteResult'[1]
              resolved == pathResolve(call.filePath)
          IN  /\ files' \in {files, files \ {resolved}}
              /\ call.success <=> (resolved \in files /\ files' = files \ {resolved})
              /\ call.success =>
                    /\ attachmentDir
                    /\ StrictlyInside(resolved, AttachmentDirPath.segs)
              /\ ( \/ ~attachmentDir
                   \/ ~StrictlyInside(resolved, AttachmentDirPath.segs)
                   \/ resolved \notin files ) =>
                    /\ ~call.success
                    /\ files' = files
      ]_vars

\* A relative path that resolves to an existing file of the sibling directory
\* whose name begins with the directory's name was refused, and the file
\* still exists.
C21_Witness ==
    /\ attachmentDir
    /\ deleteResult # Undefined
    /\ deleteResult[1].filePath = [abs |-> FALSE, segs |-> <<"..", "attx", "f">>]
    /\ ~deleteResult[1].success
    /\ <<"attx", "f">> \in files

(***************************************************************************)
(* Properties of the CallToolRequest handler.                              *)
(***************************************************************************)
\* The call in progress or answered lacks a required argument of its tool.
LacksRequired ==
    /\ toolArgs # Undefined
    /\ tool \in AdvertisedTools
    /\ ~(Required(tool) \subseteq toolArgs[1])

\* The response is the one text item with the JSON of { error: ... }.
IsErrorResult(r) ==
    /\ r # Undefined
    /\ Len(r[1]) = 1
    /\ r[1][1].json = "error"

\* C22: a call of an advertised tool that lacks an argument listed in the
\* tool's inputSchema.required is answered with an error result, and no
\* client operation runs and no upstream request is sent for it.
C22_MissingRequiredRejected ==
    /\ LacksRequired => tpc # "calling"
    /\ LacksRequired /\ tpc = "replied" => IsErrorResult(response)

\* The handler rejected the call before it called the client.
Rejected ==
    \/ toolArgs = Undefined
    \/ tool \notin AdvertisedTools
    \/ ~(Checked(tool) \subseteq toolArgs[1])

\* The operation the handler awaited has thrown.
OperationFailed ==
    \/ tool = "trello_wait_for_changes" /\ failed
    \/ /\ tool \notin {"trello_wait_for_changes", "trello_delete_local_attachment"}
       /\ failure # "none"

\* C23: no exception leaves the handler; every answered call has a response
\* with exactly one content item of type text, which is the JSON of
\* { error: message } when the arguments object is missing, the tool is
\* unknown, a tested argument is missing or the awaited operation (a watch
\* included) has thrown, and is the JSON of the operation's result otherwise.
C23_AlwaysOneTextItem ==
    /\ tpc \in {"idle", "calling", "replied"}
    /\ tpc # "replied" => response = Undefined
    /\ tpc = "replied" =>
          /\ response # Undefined
          /\ Len(response[1]) = 1
          /\ response[1][1].type = "text"
          /\ response[1][1].json \in {"result", "error"}
          /\ response[1][1].json = "error" <=> (Rejected \/ OperationFailed)
          /\ response[1][1].json = "result" => response[1][1].of = ToolOp(tool)

\* A watch called through the tool has failed on an upstream request and the
\* handler answered with the error item.
C23_Witness ==
    /\ tpc = "replied"
    /\ tool = "trello_wait_for_changes"
    /\ failed
    /\ wpc = "thrown"
    /\ IsErrorResult(response)
    /\ response[1][1].of = "watchFailure"

(***************************************************************************)
(* Properties of the snapshot store and of the cycles of a watch.          *)
(***************************************************************************)
\* The snapshot captured in the last completed cycle, as the detector run of
\* that cycle left it.
LastCaptured ==
    detectChanges(lastRun[1].oldSnapshot, lastRun[1].newSnapshot,
                  lastRun[1].actions).newSnapshot

\* C24: after every completed poll cycle, with or without detected changes,
\* the entry of the process-wide store is the snapshot captured in that
\* cycle; when the watch times out it is the last snapshot captured.
C24_StoreHoldsLastCaptured ==
    (wpc \in {"sleep", "returned"} /\ lastRun # Undefined) =>
        boardSnapshots = Some(LastCaptured)

\* The number of upstream calls of the invocation that are in flight.
InFlight == Len(Pending(requests))

\* C25: at most one upstream call of the invocation is in flight at any
\* time (exactly one while the invocation waits for an answer, none while it
\* sleeps); the sleep of the next cycle begins only when the detector run of
\* the cycle before, activity request included, has completed, and the
\* capture of a poll cycle begins only from that sleep.
C25_CyclesSequential ==
    /\ [](InFlight <= 1)
    /\ [](wpc \in {"snapLists", "snapCards", "names", "activity"} => InFlight = 1)
    /\ [](wpc = "sleep" => InFlight = 0 /\ (phase = "poll" => lastRun # Undefined))
    /\ [][ (wpc' = "snapLists" /\ wpc \notin {"idle", "snapLists"}) =>
              (wpc = "sleep" /\ InFlight = 0) ]_vars

\* The second poll cycle has captured its snapshot and its activity request
\* is in flight.
C25_Witness ==
    /\ cycles = 1
    /\ phase = "poll"
    /\ wpc = "activity"
    /\ InFlight = 1
    /\ Len(requests) >= 3

(***************************************************************************)
(* Properties of createBoardSnapshot.                                      *)
(***************************************************************************)
\* The cards requests of the log, and the cards they returned, in order.
CardsRequests(log) == SelectSeq(log, LAMBDA r : r.kind = "cards")

RECURSIVE ReturnedCards(_)
ReturnedCards(log) ==
    IF log = <<>> THEN <<>>
    ELSE (IF Head(log).kind = "cards" THEN Head(log).response ELSE <<>>)
         \o ReturnedCards(Tail(log))

\* The card with this id that was returned last.
LastReturned(cards, id) ==
    cards[CHOOSE i \in 1..Len(cards) :
             cards[i].id = id /\ \A j \in (i + 1)..Len(cards) : cards[j].id # id]

\* The board lists createBoardSnapshot is to fetch cards of.
Targeted ==
    {l \in Lists : listIds = Undefined \/ \E k \in 1..Len(listIds[1]) : listIds[1][k] = l}

\* The snapshot createBoardSnapshot has just returned.
JustCaptured == IF wpc = "names" THEN snapshot ELSE newSnapshot

\* C26: when createBoardSnapshot returns, cards were requested for exactly
\* the targeted board lists (all of them without a restriction), the keys of
\* the card map are exactly the ids of the cards those requests returned,
\* each key once, each entry holds the id, name, description, list id and
\* label ids of the card as returned (no labels: empty), and the list map
\* holds every list of the board.
C26_SnapshotContents ==
    wpc \in {"names", "activity"} =>
        LET snap == JustCaptured
            asked == CardsRequests(requests)
            cards == ReturnedCards(requests)
        IN  /\ {asked[i].list : i \in 1..Len(asked)} = Targeted
            /\ Keys(snap) = {cards[i].id : i \in 1..Len(cards)}
            /\ \A i, j \in 1..Len(snap.cards) :
                  snap.cards[i].id = snap.cards[j].id => i = j
            /\ \A i \in 1..Len(snap.cards) :
                  LET card == LastReturned(cards, snap.cards[i].id)
                  IN  snap.cards[i] = [id |-> card.id, name |-> card.name,
                                       desc |-> card.desc, idList |-> card.idList,
                                       idLabels |-> card.idLabels]
            /\ {snap.lists[i] : i \in 1..Len(snap.lists)} = Lists

\* A watch restricted to the first list has captured a poll snapshot that
\* holds a card with labels and a card without, while a card of the other
\* list is left out.
C26_Witness ==
    /\ wpc = "activity"
    /\ listIds # Undefined
    /\ \E i, j \in 1..Len(newSnapshot.cards) :
          /\ newSnapshot.cards[i].idLabels = <<>>
          /\ newSnapshot.cards[j].idLabels # <<>>
    /\ Len(newSnapshot.lists) = NumLists

(***************************************************************************)
(* The requests of a poll cycle.                                           *)
(***************************************************************************)
\* How many requests of a kind the log holds, and how many for one list.
CountKind(log, kind) == Cardinality({i \in 1..Len(log) : log[i].kind = kind})

CountCards(log, l) ==
    Cardinality({i \in 1..Len(log) : log[i].kind = "cards" /\ log[i].list = l})

\* A poll cycle has completed and the next one has not begun.
CycleDone == phase = "poll" /\ lastRun # Undefined

\* The list ids of the restriction, or every list of the board without one.
RestrictionIds ==
    IF listIds = Undefined THEN Lists
    ELSE {listIds[1][k] : k \in 1..Len(listIds[1])}

\* One lists request, one activity request with limit 50, nothing but cards
\* requests besides.
OneListsOneActivity ==
    /\ CountKind(requests, "lists") = 1
    /\ CountKind(requests, "activity") = 1
    /\ \A i \in 1..Len(requests) :
          /\ requests[i].kind \in {"lists", "cards", "activity"}
          /\ requests[i].kind = "activity" => requests[i].limit = 50
          /\ requests[i].done

\* C27 (as stated): a completed poll cycle has issued one lists request, one
\* activity request with limit 50 and one cards request for every list id of
\* the restriction set (every board list without a restriction), nothing else.
C27_OneFetchPerRestrictionId ==
    CycleDone =>
        /\ OneListsOneActivity
        /\ \A l \in RestrictionIds : CountCards(requests, l) = 1
        /\ CountKind(requests, "cards") = Cardinality(RestrictionIds)

\* C27 (amended): a completed poll cycle has issued one lists request, one
\* activity request with limit 50 and one cards request for every list of
\* the board whose id is in the restriction set (every board list without a
\* restriction), nothing else; an id of the restriction set that is no list
\* of the board produces no request.
C27_OneFetchPerTargetedBoardList ==
    CycleDone =>
        /\ OneListsOneActivity
        /\ \A l \in Targeted : CountCards(requests, l) = 1
        /\ \A l \in RestrictionIds \ Lists : CountCards(requests, l) = 0
        /\ CountKind(requests, "cards") = Cardinality(Targeted)

\* A poll cycle of a watch restricted to the first list and to an id that is
\* no list of the board has completed: one cards request, for the first list.
C27_Witness ==
    /\ CycleDone
    /\ listIds = Some(<<1, NumLists + 1>>)
    /\ CountCards(requests, 1) = 1
    /\ CountCards(requests, NumLists + 1) = 0
    /\ Len(requests) = 3

(***************************************************************************)
(* The snapshots a detector run is given.                                  *)
(***************************************************************************)
\* The detector run of the last completed cycle, on the snapshots as they
\* were when the run began.
LastDetectorRun ==
    detectChanges(lastRun[1].oldSnapshot, lastRun[1].newSnapshot, lastRun[1].actions)

\* C28: a detector run leaves the previous snapshot as it was captured: its
\* card map, the label ids of every card in their order and its last-seen
\* activity id are the same after the run, and the oldLabels of a
\* label_changed record are the card's labels as captured.
C28_PreviousSnapshotUntouched ==
    lastRun # Undefined =>
        /\ LastDetectorRun.oldSnapshot = lastRun[1].oldSnapshot
        /\ \A i \in 1..Len(LastDetectorRun.changes) :
              LET change == LastDetectorRun.changes[i]
              IN  change.type = "label_changed" =>
                     change.oldLabels =
                        MapGet(lastRun[1].oldSnapshot.cards, change.cardId).idLabels

(***************************************************************************)
(* Two invocations on one board.                                           *)
(***************************************************************************)
\* The snapshot is a capture of the board by this invocation: the cards of
\* the targeted lists with their list, description and labels (in any order).
OwnCapture(snap) ==
    /\ Keys(snap) = {c \in CardIds : wCards[c].idList \in Targeted}
    /\ \A i \in 1..Len(snap.cards) :
          LET entry == snap.cards[i]
          IN  /\ entry.idList = wCards[entry.id].idList
              /\ entry.desc = wCards[entry.id].desc
              /\ LabelSet(entry.idLabels) = LabelSet(wCards[entry.id].idLabels)

\* C29: while another invocation writes its snapshots to the shared store of
\* a board nobody changes, every detector run of this invocation compares
\* two snapshots this invocation captured, and so reports no card change and
\* returns only the timeout result or comment records; the store holds a
\* whole snapshot of one of the two invocations, and a step that changes it
\* without any step of this invocation leaves the other invocation's snapshot.
C29_OtherWritesIgnored ==
    /\ [](lastRun # Undefined =>
            /\ OwnCapture(lastRun[1].oldSnapshot)
            /\ OwnCapture(lastRun[1].newSnapshot)
            /\ \A i \in 1..Len(lastRun[1].changes) :
                  lastRun[1].changes[i].type = "commented")
    /\ [](result # Undefined /\ NoComments =>
            result = Some([changes |-> <<>>, timedOut |-> TRUE]))
    /\ [](boardSnapshots # Undefined =>
            boardSnapshots[1] \in OtherSnapshots \/ OwnCapture(boardSnapshots[1]))
    /\ [][ /\ (boardSnapshots' # boardSnapshots /\ wpc' = wpc /\ elapsed' = elapsed) =>
                boardSnapshots'[1] \in OtherSnapshots
           /\ (wpc = "snapCards" /\ wpc' = "names") => boardSnapshots' = Some(snapshot')
         ]_vars

\* The other invocation's snapshot is in the store while this invocation
\* has completed a second detector run on its own snapshots.
C29_Witness ==
    /\ boardSnapshots # Undefined
    /\ boardSnapshots[1] \in OtherSnapshots
    /\ boardSnapshots[1].cards # <<>>
    /\ cycles >= 2
    /\ lastRun # Undefined
    /\ lastRun[1].oldSnapshot.cards # <<>>

(***************************************************************************)
(* A watch restricted to some lists.                                       *)
(***************************************************************************)
\* The card was on the board before the watch and was updated during it:
\* the feed shows an update of the card and not its creation.
MovedOnBoard(c) ==
    /\ \E k \in 1..Len(wFeed) : wFeed[k].type = "updateCard" /\ wFeed[k].card = c
    /\ \A k \in 1..Len(wFeed) : ~(wFeed[k].type = "createCard" /\ wFeed[k].card = c)

\* C30: in a watch restricted to some list ids both snapshots hold cards of
\* watched lists only; a card that the current snapshot holds and the
\* previous one lacks (it came from an unwatched list) gets one added record
\* and no moved record; a card that the previous snapshot holds and the
\* current one lacks (it went to an unwatched list) gets no record at all;
\* a moved record is about a card of both snapshots and names two watched
\* lists.
C30_MovesAcrossTheBoundary ==
    (listIds # Undefined /\ lastRun # Undefined) =>
        LET old == lastRun[1].oldSnapshot
            new == lastRun[1].newSnapshot
            changes == lastRun[1].changes
        IN  /\ \A i \in 1..Len(old.cards) : old.cards[i].idList \in Targeted
            /\ \A i \in 1..Len(new.cards) : new.cards[i].idList \in Targeted
            /\ \A c \in Keys(new) \ Keys(old) :
                  /\ Cardinality(RecordsOf(changes, c, "added")) = 1
                  /\ RecordsOf(changes, c, "moved") = {}
            /\ \A c \in Keys(old) \ Keys(new) :
                  \A i \in 1..Len(changes) : changes[i].cardId # c
            /\ \A i \in 1..Len(changes) :
                  changes[i].type = "moved" =>
                     /\ changes[i].cardId \in Keys(old) \cap Keys(new)
                     /\ changes[i].oldListId \in Targeted
                     /\ changes[i].listId \in Targeted

\* In a watch of the first list, one card was moved into the list and is
\* reported as added, and another was moved out of it and has no record.
C30_Witness ==
    /\ listIds = Some(<<1>>)
    /\ lastRun # Undefined
    /\ \E c, d \in CardIds :
          /\ c # d
          /\ MovedOnBoard(c)
          /\ MovedOnBoard(d)
          /\ wCards[c].idList \in Targeted
          /\ wCards[d].idList \in Lists \ Targeted
          /\ c \in Keys(lastRun[1].newSnapshot) \ Keys(lastRun[1].oldSnapshot)
          /\ RecordsOf(lastRun[1].changes, c, "added") # {}
          /\ d \in Keys(lastRun[1].oldSnapshot) \ Keys(lastRun[1].newSnapshot)
          /\ Len(lastRun[1].changes) = 1

====
